---- MODULE Spec2Model ----
(***************************************************************************)
(* Model of src/lib.rs of wasm-audio-combiner: the AudioCombiner instance  *)
(* (new / combine) and the WAV writer create_wav_container.                *)
(*                                                                         *)
(* Representation.                                                         *)
(*  - A clip's bytes are opaque to lib.rs; everything it learns about them *)
(*    comes back from the symphonia calls it makes.  A clip is therefore   *)
(*    the record of what those calls return for its bytes: whether the     *)
(*    probe succeeds, whether a default track exists, whether a decoder    *)
(*    can be made, the packets next_packet yields (each decodes to a list  *)
(*    of frames or fails), and the error that ends the packet stream.      *)
(*  - f32 samples are exact fixed-point numbers: a decoded sample is held  *)
(*    in units of 1/SampleDen, a mixed sample in units of 1/FxOne.         *)
(*    Rounding of f32 and NaN are outside the model.                       *)
(*  - u32 header fields are their four little-endian bytes, so that the    *)
(*    32-bit width of the arithmetic is the real one.                      *)
(***************************************************************************)
EXTENDS Integers, Sequences, FiniteSets

\* ------------------------------------------------------------------ bounds
MaxFiles == 2
MaxVolumes == 2
MaxSamples == 3
SpinWrap == 2

\* ------------------------------------------------------- program constants
GainDen == 100
I16Max == 32767
I16Min == -32768
TargetSampleRate == 44100
WaitMs == 3000
RiffExtra == 36
FmtChunkSize == 16
PcmTag == 1
OutChannels == 2
BlockAlign == 4
BitsPerSample == 16
ByteRateFactor == 4
BytesPerSample == 2

\* ------------------------------------------------------- model resolution
SampleDen == GainDen
FxOne == SampleDen * GainDen
TickMs == WaitMs

\* ------------------------------------------------------------- u32 / bytes
ByteBase == 256

\* `x as u32` followed by to_le_bytes, for a non-negative x the model can
\* hold: every byte is taken modulo ByteBase, so the value is cut to 32 bits.
AsU32(x) ==
    << x % ByteBase,
       (x \div ByteBase) % ByteBase,
       (x \div (ByteBase * ByteBase)) % ByteBase,
       (x \div (ByteBase * ByteBase * ByteBase)) % ByteBase >>

\* u16 to_le_bytes
AsU16(x) == << x % ByteBase, (x \div ByteBase) % ByteBase >>

\* u32 + u32 on little-endian bytes: the wrapped sum and whether it overflowed
AddU32(a, b) ==
    LET s1 == a[1] + b[1]
        s2 == a[2] + b[2] + (s1 \div ByteBase)
        s3 == a[3] + b[3] + (s2 \div ByteBase)
        s4 == a[4] + b[4] + (s3 \div ByteBase)
    IN  [ bytes |-> << s1 % ByteBase, s2 % ByteBase, s3 % ByteBase, s4 % ByteBase >>,
          overflow |-> s4 \div ByteBase > 0 ]

\* u32 * small factor on little-endian bytes: wrapped product and overflow flag
MulU32(a, m) ==
    LET p1 == a[1] * m
        p2 == a[2] * m + (p1 \div ByteBase)
        p3 == a[3] * m + (p2 \div ByteBase)
        p4 == a[4] * m + (p3 \div ByteBase)
    IN  [ bytes |-> << p1 % ByteBase, p2 % ByteBase, p3 % ByteBase, p4 % ByteBase >>,
          overflow |-> p4 \div ByteBase > 0 ]

\* ASCII of the four chunk identifiers
TagRIFF == << 82, 73, 70, 70 >>
TagWAVE == << 87, 65, 86, 69 >>
TagFmt  == << 102, 109, 116, 32 >>
TagData == << 100, 97, 116, 97 >>

\* --------------------------------------------------------- quantization
\* f32::clamp(-1.0, 1.0) on a mixed sample held in units of 1/FxOne
Clamp(sample) ==
    IF sample < -FxOne THEN -FxOne ELSE IF sample > FxOne THEN FxOne ELSE sample

\* truncation toward zero of a / b, b > 0 (the direction of a float-to-int cast)
TruncDiv(a, b) == IF a >= 0 THEN a \div b ELSE -((-a) \div b)

\* Rust's float `as i16`: truncates toward zero and saturates at the i16 range
AsI16(num, den) ==
    LET t == TruncDiv(num, den)
    IN  IF t > I16Max THEN I16Max ELSE IF t < I16Min THEN I16Min ELSE t

\* a cast that keeps the low 16 bits instead of saturating, on an unclamped sample
QuantizeWrapping(sample) ==
    LET t == TruncDiv(sample * I16Max, FxOne)
    IN  ((t - I16Min) % (ByteBase * ByteBase)) + I16Min

\* lines 68-69: clamp, scale by i16::MAX, cast
Quantize(sample) == AsI16(Clamp(sample) * I16Max, FxOne)

\* i16::to_le_bytes (two's complement)
I16LeBytes(s) == AsU16(s % (ByteBase * ByteBase))

RECURSIVE PcmBytes(_)
PcmBytes(samples) ==
    IF samples = << >> THEN << >>
    ELSE I16LeBytes(Quantize(Head(samples))) \o PcmBytes(Tail(samples))

\* what a call of create_wav_container comes to: the bytes, or a panic
Panic == [panic |-> TRUE, bytes |-> << >>]
Wav(bytes) == [panic |-> FALSE, bytes |-> bytes]

\* data_size computed without the factor 2
DataSizeUnscaled(samples) == AsU32(Len(samples))

\* line 45: (samples.len() * 2) as u32
DataSize(samples) == AsU32(Len(samples) * BytesPerSample)

\* create_wav_container.  sample_rate is a u32 given as its four bytes;
\* checks says whether the build traps on integer overflow (debug) or wraps
\* (release): with checks the two u32 additions/multiplications panic.
CreateWavContainer(samples, sample_rate, checks) ==
    LET data_size == DataSize(samples)
        chunk     == AddU32(AsU32(RiffExtra), data_size)
        byte_rate == MulU32(sample_rate, ByteRateFactor)
    IN  IF checks /\ (chunk.overflow \/ byte_rate.overflow)
        THEN Panic
        ELSE Wav(TagRIFF \o chunk.bytes \o TagWAVE
                 \o TagFmt \o AsU32(FmtChunkSize) \o AsU16(PcmTag) \o AsU16(OutChannels)
                 \o sample_rate \o byte_rate.bytes
                 \o AsU16(BlockAlign) \o AsU16(BitsPerSample)
                 \o TagData \o data_size
                 \o PcmBytes(samples))

\* ------------------------------------------------------------------ clips
\* One decoded packet: the frames copy_interleaved_ref lays out one after the
\* other (a frame is one sample per channel), or a packet decode() rejects.
GoodPacket(frames) == [ok |-> TRUE, frames |-> frames]
BadPacket == [ok |-> FALSE, frames |-> << >>]

\* SingleAudioFile: the type tag, and for the bytes what symphonia makes of
\* them.  end is the error with which next_packet stops yielding packets:
\* "eof" for the end of the stream, "io" for a read failure in mid-stream.
Clip(type, probe, track, codec, channels, packets, end) ==
    [ type |-> type, probe |-> probe, track |-> track, codec |-> codec,
      channels |-> channels, packets |-> packets, end |-> end ]

MonoClip      == Clip("Mpeg", TRUE, TRUE, TRUE, 1,
                      << GoodPacket(<< <<100>> >>), GoodPacket(<< <<-50>> >>) >>, "eof")
StereoClip    == Clip("Ogg", TRUE, TRUE, TRUE, 2,
                      << GoodPacket(<< <<50, -100>>, <<100, 25>> >>) >>, "eof")
SurroundClip  == Clip("Ogg", TRUE, TRUE, TRUE, 3,
                      << GoodPacket(<< <<100, 50, -100>> >>) >>, "eof")
UnknownClip   == Clip("Mpeg", FALSE, FALSE, FALSE, 0, << >>, "eof")
TracklessClip == Clip("Ogg", TRUE, FALSE, FALSE, 0, << >>, "eof")
MalformedClip == Clip("Mpeg", TRUE, TRUE, TRUE, 1,
                      << GoodPacket(<< <<100>> >>), BadPacket >>, "eof")
TruncatedClip == Clip("Ogg", TRUE, TRUE, TRUE, 2,
                      << GoodPacket(<< <<100, 100>> >>) >>, "io")

Clips == { MonoClip, StereoClip, SurroundClip, UnknownClip, TracklessClip,
           MalformedClip, TruncatedClip }

\* u8 gain percentages offered to combine
Gains == { 50, 255 }

SeqsUpTo(S, n) == UNION { [1..k -> S] : k \in 0..n }

\* ----------------------------------------------------------------- mixing
Ok(master)  == [ok |-> TRUE, err |-> "", master |-> master]
Err(e)      == [ok |-> FALSE, err |-> e, master |-> << >>]

\* accumulation that clips the running sum to [-1.0, 1.0]
MixSampleClipped(master, track_index, processed) ==
    IF track_index >= Len(master)
    THEN Append(master, Clamp(processed))
    ELSE [master EXCEPT ![track_index + 1] = Clamp(@ + processed)]

\* lines 148-152: push past the end of the master buffer, add inside it
MixSample(master, track_index, processed) ==
    IF track_index >= Len(master)
    THEN Append(master, processed)
    ELSE [master EXCEPT ![track_index + 1] = @ + processed]

\* sample_buf.samples(): the packet's frames, interleaved
RECURSIVE Interleaved(_)
Interleaved(frames) ==
    IF frames = << >> THEN << >> ELSE Head(frames) \o Interleaved(Tail(frames))

\* lines 145-154: the loop over one packet's samples.  volume is the u8
\* gain; sample * (volume / 100.0) is the numerator sample * volume over FxOne.
RECURSIVE MixSamples(_, _, _, _)
MixSamples(master, track_index, samples, volume) ==
    IF samples = << >>
    THEN [master |-> master, track_index |-> track_index]
    ELSE MixSamples(MixSample(master, track_index, Head(samples) * volume),
                    track_index + 1, Tail(samples), volume)

\* lines 135-155: `while let Ok(packet) = format.next_packet()`.  The loop
\* ends on the first Err of next_packet, whatever the error (clip.end is
\* never looked at); a packet that fails to decode returns from combine.
RECURSIVE DecodeAndMix(_, _, _, _, _)
DecodeAndMix(master, track_index, clip, k, volume) ==
    IF k > Len(clip.packets)
    THEN Ok(master)
    ELSE IF ~clip.packets[k].ok
    THEN Err("DecodeError")
    ELSE LET m == MixSamples(master, track_index,
                             Interleaved(clip.packets[k].frames), volume)
         IN  DecodeAndMix(m.master, m.track_index, clip, k + 1, volume)

\* a lookup that falls back to unity gain for a missing entry
VolumeOrUnity(volumes, i) ==
    IF i < Len(volumes) THEN [some |-> TRUE, v |-> volumes[i + 1]]
                        ELSE [some |-> TRUE, v |-> GainDen]

\* lines 90-92: volumes.get(i), i counted from 0
VolumeAt(volumes, i) ==
    IF i < Len(volumes) THEN [some |-> TRUE, v |-> volumes[i + 1]]
                        ELSE [some |-> FALSE, v |-> 0]

\* lines 89-155: the body of the loop over self.files for file number i
MixFile(master, clip, i, volumes) ==
    LET vol == VolumeAt(volumes, i)
    IN  IF ~vol.some THEN Err("MissingVolume")
        ELSE IF ~clip.probe THEN Err("ProbeError")
        ELSE IF ~clip.track THEN Err("NoTrack")
        ELSE IF ~clip.codec THEN Err("CodecError")
        ELSE DecodeAndMix(master, 0, clip, 1, vol.v)

\* lines 89-156: the loop over self.files, `?` leaving at the first error
RECURSIVE MixFiles(_, _, _, _)
MixFiles(master, files, i, volumes) ==
    IF i >= Len(files)
    THEN Ok(master)
    ELSE LET r == MixFile(master, files[i + 1], i, volumes)
         IN  IF r.ok THEN MixFiles(r.master, files, i + 1, volumes) ELSE r

\* what combine hands back: Ok(SingleAudioFile), Err(String), or a panic
NoResult == [state |-> "none", err |-> "", bytes |-> << >>, type |-> ""]
ResultOk(bytes, type) == [state |-> "ok", err |-> "", bytes |-> bytes, type |-> type]
ResultErr(e) == [state |-> "err", err |-> e, bytes |-> << >>, type |-> ""]
ResultPanic == [state |-> "panic", err |-> "", bytes |-> << >>, type |-> ""]

\* lines 86-165: combine after the wait
CombineBody(files, volumes, checks) ==
    LET mixed == MixFiles(<< >>, files, 0, volumes)
        wav   == CreateWavContainer(mixed.master, AsU32(TargetSampleRate), checks)
    IN  IF ~mixed.ok THEN ResultErr(mixed.err)
        ELSE IF wav.panic THEN ResultPanic
        ELSE ResultOk(wav.bytes, "Ogg")

\* ------------------------------------------------------------------ state
VARIABLES
    constructed,    \* an AudioCombiner exists
    files,          \* its field files: Vec<SingleAudioFile>
    pc,             \* "idle", or "spin": combine is in its wait loop
    volumes,        \* the argument of the combine call in progress or last returned
    elapsed,        \* now() - captured_now in ms, as the wait loop reads it
    i,              \* the wait loop's counter (u128, cut to SpinWrap values)
    master,         \* master_buffer as the call left it (empty while it waits)
    result,         \* what the call returned (NoResult while it waits)
    first,          \* the instance's first call and its result, kept once a later call starts
    overflowChecks, \* the build traps on integer overflow
    wavSamples,     \* create_wav_container on its own: its samples,
    wavRate,        \*   its sample_rate,
    wavOut          \*   and what the call came to

vars == << constructed, files, pc, volumes, elapsed, i, master, result, first,
           overflowChecks, wavSamples, wavRate, wavOut >>

combinerVars == << constructed, files, pc, volumes, elapsed, i, master, result, first >>
wavVars == << overflowChecks, wavSamples, wavRate, wavOut >>

NoCall == [set |-> FALSE, volumes |-> << >>, result |-> NoResult]
WavPending == [state |-> "pending", bytes |-> << >>]

NoCombiner ==
    /\ constructed = FALSE
    /\ files = << >>
    /\ pc = "idle"
    /\ volumes = << >>
    /\ elapsed = 0
    /\ i = 0
    /\ master = << >>
    /\ result = NoResult
    /\ first = NoCall

Init ==
    /\ NoCombiner
    /\ overflowChecks = FALSE
    /\ wavSamples = << >>
    /\ wavRate = AsU32(TargetSampleRate)
    /\ wavOut = WavPending

\* ---------------------------------------------------------------- actions
\* lines 77-79: AudioCombiner::new stores the clips as given.  The model
\* follows one instance from its construction on.
New(fs) ==
    /\ ~constructed
    /\ pc = "idle"
    /\ pc' = "idle"
    /\ constructed' = TRUE
    /\ files' = fs
    /\ volumes' = << >>
    /\ elapsed' = 0
    /\ i' = 0
    /\ master' = << >>
    /\ result' = NoResult
    /\ first' = NoCall
    /\ UNCHANGED wavVars

\* lines 80-82: combine is entered; captured_now = now()
CombineCall(vs) ==
    /\ constructed
    /\ pc = "idle"
    /\ pc' = "spin"
    /\ volumes' = vs
    /\ elapsed' = 0
    /\ i' = 0
    /\ master' = << >>
    /\ result' = NoResult
    /\ first' = IF ~first.set /\ result.state # "none"
                THEN [set |-> TRUE, volumes |-> volumes, result |-> result]
                ELSE first
    /\ UNCHANGED << constructed, files, wavVars >>

\* lines 83-85: one turn of `while now() < captured_now + 3_000.0 { i += 1 }`
Spin ==
    /\ pc = "spin"
    /\ elapsed < WaitMs
    /\ i' = (i + 1) % SpinWrap
    /\ UNCHANGED << constructed, files, pc, volumes, elapsed, master, result, first, wavVars >>

\* lines 8-9: the host's Date.now() moves on while combine waits.  Time past
\* the end of the wait is not told apart: nothing reads the clock after it.
Tick ==
    /\ pc = "spin"
    /\ elapsed < WaitMs
    /\ elapsed' = elapsed + TickMs
    /\ UNCHANGED << constructed, files, pc, volumes, i, master, result, first, wavVars >>

\* a decode that takes the bytes out of the stored file
MovedOut(clip) == [clip EXCEPT !.probe = FALSE, !.packets = << >>]

\* line 97: the decoder reads file.bytes.clone(); the stored file stays
KeptFile(clip) == clip

\* lines 83-165: the wait loop is left and the rest of combine runs
CombineReturn ==
    /\ pc = "spin"
    /\ ~(elapsed < WaitMs)
    /\ LET mixed == MixFiles(<< >>, files, 0, volumes)
           r     == CombineBody(files, volumes, overflowChecks)
       IN  /\ master' = mixed.master
           /\ result' = r
    /\ files' = [k \in DOMAIN files |-> KeptFile(files[k])]
    /\ pc' = "idle"
    /\ UNCHANGED << constructed, volumes, elapsed, i, first, wavVars >>

Next ==
    \/ \E fs \in SeqsUpTo(Clips, MaxFiles) : New(fs)
    \/ \E vs \in SeqsUpTo(Gains, MaxVolumes) : CombineCall(vs)
    \/ Spin
    \/ Tick
    \/ CombineReturn

Spec == Init /\ [][Next]_vars

\* combine's own steps are taken as long as they can be (the call runs
\* synchronously); nothing makes the host's clock advance.
LiveSpec == Spec /\ WF_vars(Spin) /\ WF_vars(CombineReturn)

\* ------------------------------------------- create_wav_container by itself
WavSampleValues ==
    { -3 * FxOne, -FxOne - 1, -FxOne, -(FxOne \div 2), 0, FxOne \div 3, FxOne,
      2 * FxOne + 1 }

\* sample rates as u32 bytes: 44100, 48000, 2^30 - 1, 2^30, 2^32 - 1
WavRates ==
    { AsU32(TargetSampleRate), AsU32(48000), << 255, 255, 255, 63 >>,
      << 0, 0, 0, 64 >>, << 255, 255, 255, 255 >> }

WavInit ==
    /\ NoCombiner
    /\ overflowChecks \in BOOLEAN
    /\ wavSamples \in SeqsUpTo(WavSampleValues, MaxSamples)
    /\ wavRate \in WavRates
    /\ wavOut = WavPending

\* lines 43-73: one call of create_wav_container
Encode ==
    /\ wavOut.state = "pending"
    /\ LET w == CreateWavContainer(wavSamples, wavRate, overflowChecks)
       IN  wavOut' = IF w.panic THEN [state |-> "panic", bytes |-> << >>]
                     ELSE [state |-> "done", bytes |-> w.bytes]
    /\ UNCHANGED << combinerVars, overflowChecks, wavSamples, wavRate >>

WavNext == Encode

WavSpec == WavInit /\ [][WavNext]_vars

\* ========================================================== properties
\* ---------------------------------------------------------------- helpers
Max(a, b) == IF a >= b THEN a ELSE b
Min(a, b) == IF a <= b THEN a ELSE b

\* a combine call has returned and its result is on view
Returned == pc = "idle" /\ result.state # "none"

\* the samples a clip decodes to, packet after packet
RECURSIVE TrackFrom(_)
TrackFrom(packets) ==
    IF packets = << >> THEN << >>
    ELSE Interleaved(Head(packets).frames) \o TrackFrom(Tail(packets))
Track(clip) == TrackFrom(clip.packets)

\* the number of frames a clip decodes to
RECURSIVE FrameCount(_)
FrameCount(packets) ==
    IF packets = << >> THEN 0
    ELSE Len(Head(packets).frames) + FrameCount(Tail(packets))

\* the clip is rejected at the probe, for want of a track or of a codec, or
\* holds a packet that does not decode
DecodeFails(clip) ==
    \/ ~clip.probe
    \/ ~clip.track
    \/ ~clip.codec
    \/ \E k \in DOMAIN clip.packets : ~clip.packets[k].ok

\* reading or decoding the clip fails somewhere
ReadFails(clip) == DecodeFails(clip) \/ clip.end # "eof"

DecodeErrors == { "ProbeError", "NoTrack", "CodecError", "DecodeError" }

\* sum over the tracks 1..k that reach index j of track[j] * gain
RECURSIVE GainSum(_, _, _, _)
GainSum(fs, vs, j, k) ==
    IF k = 0 THEN 0
    ELSE GainSum(fs, vs, j, k - 1)
         + (IF Len(Track(fs[k])) >= j THEN Track(fs[k])[j] * vs[k] ELSE 0)

RECURSIVE MaxTrackLen(_, _)
MaxTrackLen(fs, k) ==
    IF k = 0 THEN 0 ELSE Max(Len(Track(fs[k])), MaxTrackLen(fs, k - 1))

RECURSIVE MaxFrames(_, _)
MaxFrames(fs, k) ==
    IF k = 0 THEN 0 ELSE Max(FrameCount(fs[k].packets), MaxFrames(fs, k - 1))

\* header fields read back from the bytes (offsets counted from 0)
U32At(bytes, off) == SubSeq(bytes, off + 1, off + 4)
LowHalf(b)  == b[1] + ByteBase * b[2]
HighHalf(b) == b[3] + ByteBase * b[4]
SmallValue(b) == LowHalf(b) + ByteBase * ByteBase * HighHalf(b)
I16At(bytes, off) ==
    LET u == bytes[off + 1] + ByteBase * bytes[off + 2]
    IN  IF u > I16Max THEN u - ByteBase * ByteBase ELSE u

\* f = 4 * r as numbers, for u32 byte strings f and r, in 16-bit halves
IsFourTimes(f, r) ==
    LET lo == ByteRateFactor * LowHalf(r)
        c  == lo \div (ByteBase * ByteBase)
    IN  /\ LowHalf(f) = lo % (ByteBase * ByteBase)
        /\ HighHalf(f) = ByteRateFactor * HighHalf(r) + c

Abs(x) == IF x < 0 THEN -x ELSE x

\* v is num / den cut toward zero
IsTruncOf(v, num, den) ==
    /\ Abs(v) * den <= Abs(num)
    /\ Abs(num) < (Abs(v) + 1) * den
    /\ (v > 0 => num > 0)
    /\ (v < 0 => num < 0)

HeaderLen == Len(CreateWavContainer(<< >>, AsU32(TargetSampleRate), FALSE).bytes)

\* ------------------------------------------------------------------- C1
\* C1 (as claimed): decoding happens at construction: every instance that
\* exists holds only clips that probe and decode, and no combine call on it
\* returns a decode error.
C1_DecodedAtConstruction ==
    /\ constructed => \A k \in DOMAIN files : ~DecodeFails(files[k])
    /\ result.state = "err" => result.err \notin DecodeErrors

\* ------------------------------------------------------------------- C2
\* C2: when combine succeeds the master buffer is as long as the longest
\* track, and each of its values is the sum, over the tracks that reach that
\* index, of the track's sample times its gain over 100, with no clamping.
C2_MasterIsGainWeightedSum ==
    (Returned /\ result.state = "ok") =>
        /\ Len(master) = MaxTrackLen(files, Len(files))
        /\ \A j \in 1..Len(master) :
               master[j] = GainSum(files, volumes, j, Len(files))

\* two tracks of different lengths were mixed and a sum left [-1.0, 1.0]
C2_Witness ==
    /\ Returned /\ result.state = "ok"
    /\ Len(files) = 2
    /\ Len(Track(files[1])) < Len(Track(files[2]))
    /\ \E j \in 1..Len(master) : master[j] > FxOne
    /\ master[Len(master)] = Track(files[2])[Len(master)] * volumes[2]

\* ------------------------------------------------------------------- C3
\* C3 (as claimed): every track in the mix is stereo: the master buffer of
\* a successful combine holds two samples per frame of the longest clip, the
\* data size is four bytes per frame, and a mono clip mixed alone has equal
\* left and right samples.
C3_TracksAreStereo ==
    (Returned /\ result.state = "ok") =>
        /\ Len(master) = 2 * MaxFrames(files, Len(files))
        /\ SmallValue(U32At(result.bytes, 40)) = 4 * MaxFrames(files, Len(files))
        /\ (Len(files) = 1 /\ files[1].channels = 1) =>
               \A k \in 1..(Len(master) \div 2) : master[2 * k - 1] = master[2 * k]

\* ------------------------------------------------------------------- C4
\* C4 (as claimed): a successful combine tags its output as the uncompressed
\* WAV container, never as one of the compressed input formats.
C4_OutputTaggedWav ==
    (Returned /\ result.state = "ok") =>
        /\ result.type = "Wav"
        /\ result.type \notin { "Mpeg", "Ogg" }

\* ------------------------------------------------------------------- C7
\* C7: with fewer gains than tracks combine returns an error and no bytes
\* (the missing-volume error whenever the tracks that have a gain decode),
\* and with at least as many gains as tracks it never reports a missing
\* volume.
C7_MissingVolumeUniform ==
    Returned =>
        /\ Len(volumes) < Len(files) =>
               /\ result.state = "err"
               /\ result.bytes = << >>
               /\ (\A k \in 1..Len(volumes) : ~DecodeFails(files[k]))
                      => result.err = "MissingVolume"
        /\ Len(volumes) >= Len(files) => result.err # "MissingVolume"

\* the first track had a gain and decoded, the second had none
C7_Witness ==
    /\ Returned
    /\ Len(files) = 2 /\ Len(volumes) = 1
    /\ ~DecodeFails(files[1])
    /\ result.state = "err" /\ result.err = "MissingVolume"

\* ------------------------------------------------------------------- C8
\* C8 (as claimed): if reading or decoding any clip fails (probe, missing
\* track, malformed packet, or next_packet failing other than by the end of
\* the stream), combine returns an error and no output.
C8_ReadFailuresReturned ==
    (Returned /\ \E k \in DOMAIN files : ReadFails(files[k])) =>
        result.state = "err"

\* ------------------------------------------------------------------- C9
\* C9: no step changes the stored files of an instance, and a call that
\* returns with the gain vector of the instance's first call returns what
\* the first call returned.
C9_CombineIsPure ==
    [][ /\ constructed => files' = files
        /\ (pc' = "idle" /\ result'.state # "none" /\ first'.set
              /\ volumes' = first'.volumes) => result' = first'.result ]_vars

\* a later call with the first call's gains has returned a mix
C9_Witness ==
    /\ Returned
    /\ first.set
    /\ volumes = first.volumes
    /\ result.state = "ok"
    /\ Len(files) = 2
    /\ result = first.result

\* ------------------------------------------------------------------ C10
\* C10 (as claimed): a combine call that has started returns, whatever the
\* host's clock does.
C10_CombineTerminates == (pc = "spin") ~> (pc = "idle")

\* ------------------------------------------------------------------- C5
\* C5 (as claimed): for every sample sequence and every sample rate the call
\* returns 44 + 2n bytes with dataSize 2n, chunk size 36 + 2n and byte rate
\* sampleRate * 4, none of them wrapped.
C5_HeaderExactForEveryRate ==
    wavOut.state # "pending" =>
        /\ wavOut.state = "done"
        /\ Len(wavOut.bytes) = 44 + 2 * Len(wavSamples)
        /\ SmallValue(U32At(wavOut.bytes, 40)) = 2 * Len(wavSamples)
        /\ SmallValue(U32At(wavOut.bytes, 4)) = RiffExtra + 2 * Len(wavSamples)
        /\ IsFourTimes(U32At(wavOut.bytes, 28), wavRate)

\* the sample rate is below 2^30
RateBelow2To30 == wavRate[4] < ByteBase \div ByteRateFactor

\* C5 (amended): the same for every sample rate below 2^30.
C5_HeaderExactBelow2To30 ==
    (wavOut.state # "pending" /\ RateBelow2To30) =>
        /\ wavOut.state = "done"
        /\ Len(wavOut.bytes) = 44 + 2 * Len(wavSamples)
        /\ SmallValue(U32At(wavOut.bytes, 40)) = 2 * Len(wavSamples)
        /\ SmallValue(U32At(wavOut.bytes, 4)) = RiffExtra + 2 * Len(wavSamples)
        /\ IsFourTimes(U32At(wavOut.bytes, 28), wavRate)

\* samples were encoded at the largest rate below 2^30
C5_Witness ==
    /\ wavOut.state = "done"
    /\ Len(wavSamples) >= 2
    /\ wavRate = << 255, 255, 255, 63 >>
    /\ U32At(wavOut.bytes, 28) = << 252, 255, 255, 255 >>

\* ------------------------------------------------------------------- C6
\* C6: every 16-bit value written is clamp(s, -1.0, 1.0) * 32767 cut toward
\* zero: it lies in [-32767, 32767], has the sign of s or is 0, and is
\* monotone in s.
C6_QuantizationClampsAndTruncates ==
    wavOut.state = "done" =>
        \A j \in 1..Len(wavSamples) :
            LET s == wavSamples[j]
                v == I16At(wavOut.bytes, HeaderLen + 2 * (j - 1))
            IN  /\ v \in -I16Max..I16Max
                /\ IsTruncOf(v, Max(-FxOne, Min(FxOne, s)) * I16Max, FxOne)
                /\ (s > 0 => v >= 0) /\ (s < 0 => v <= 0)
                /\ \A k \in 1..Len(wavSamples) :
                       s <= wavSamples[k] =>
                           v <= I16At(wavOut.bytes, HeaderLen + 2 * (k - 1))

\* samples far above 1.0 and far below -1.0 were encoded to +-32767
C6_Witness ==
    /\ wavOut.state = "done"
    /\ \E j, k \in 1..Len(wavSamples) :
          /\ wavSamples[j] > 2 * FxOne
          /\ wavSamples[k] < -2 * FxOne
          /\ I16At(wavOut.bytes, HeaderLen + 2 * (j - 1)) = I16Max
          /\ I16At(wavOut.bytes, HeaderLen + 2 * (k - 1)) = -I16Max

====
